---- MODULE Spec2Model ----
(***************************************************************************)
(* Bill annexure generator: the extraction normalizer                      *)
(* (services/geminiService.ts), the session state and its handlers         *)
(* (App.tsx) and the bill table with its edit session                      *)
(* (components/BillTable, src/unnamed/part_001).                           *)
(*                                                                         *)
(* JavaScript values are tagged records, objects are functions from        *)
(* property names to values.  Amounts are whole units: the model keeps     *)
(* the sign, the zero and the not-a-number cases of a JavaScript number    *)
(* and leaves out fractions and infinities.                                *)
(***************************************************************************)
EXTENDS Integers, Sequences, FiniteSets, TLC

VARIABLES
  bills,                \* App.tsx:23   the ledger
  patientDetails,       \* App.tsx:24
  policyHolderDetails,  \* App.tsx:25
  isLoading,            \* App.tsx:28   busy flag of the extraction attempt
  error,                \* App.tsx:32
  uploadedFile,         \* App.tsx:38
  progress,             \* App.tsx:39   in hundredths of a percent
  pc,                   \* position of processPdf: idle, raster, remote
  page,                 \* getPdfImages: pages handled so far (loop index i)
  numPages,             \* getPdfImages: pdf.numPages of the document in work
  editingRowId,         \* part_001:12  BillTable's open edit (NoRow: none)
  editedData,           \* part_001:13  draft of the open edit
  newBillData,          \* part_001:19  draft of the new-row slot
  alerted,              \* part_001:75  the last handler raised window.alert
  response,             \* geminiService.ts:115  response.text under normalization
  extracted,            \* geminiService.ts:69   what extractBillDetailsFromPdf gave
  isDragging,           \* part_002:9    FileUpload's drag highlight
  isCheckingAlerts,     \* App.tsx:29    busy flag of the anomaly check
  alertResult,          \* App.tsx:33    advisory text
  alertError,           \* App.tsx:34    advisory error
  checkPc,              \* position of handleAlertCheck: idle, raster, remote
  checkFile,            \* App.tsx:121   the file handleAlertCheck rasterizes
  report,               \* App.tsx:201-216  what handleGeneratePdf last produced
  fieldDrafts           \* part_000:10-11  currentValue of the identity fields in edit

vars == <<bills, patientDetails, policyHolderDetails, isLoading, error,
          uploadedFile, progress, pc, page, numPages,
          editingRowId, editedData, newBillData, alerted, response, extracted,
          isDragging, isCheckingAlerts, alertResult, alertError, checkPc,
          checkFile, report, fieldDrafts>>

appVars == <<bills, patientDetails, policyHolderDetails, isLoading, error,
             uploadedFile, progress, pc, page, numPages>>
tableVars == <<editingRowId, editedData, newBillData, alerted>>
normVars == <<response, extracted>>
alertVars == <<isCheckingAlerts, alertResult, alertError, checkPc, checkFile>>
sideVars == <<isDragging, alertVars, report, fieldDrafts>>

-----------------------------------------------------------------------------
(* Bounds of the model *)

\* longest bills array of a response enumerated for the normalizer
MaxRespBills == 2
\* longest ledger the new-row slot is allowed to grow
MaxBills == 3
\* pages of an uploaded document: 1..MaxPages; three is the least number of
\* pages whose share of a hundred is no whole number
MaxPages == 3

-----------------------------------------------------------------------------
(* JavaScript values *)

Undefined == [t |-> "undefined", n |-> 0, s |-> ""]
Null == [t |-> "null", n |-> 0, s |-> ""]
NaN == [t |-> "NaN", n |-> 0, s |-> ""]
Num(n) == [t |-> "number", n |-> n, s |-> ""]
Str(s) == [t |-> "string", n |-> 0, s |-> s]

IsString(v) == v.t = "string"
IsNumber(v) == v.t = "number"

\* ToBoolean: undefined, null, NaN, 0 and "" are falsy
Truthy(v) ==
  CASE v.t = "number" -> v.n # 0
    [] v.t = "string" -> v.s # ""
    [] OTHER -> FALSE

\* a || b
Or(a, b) == IF Truthy(a) THEN a ELSE b

\* o.k for an object o: undefined when o has no property k
Get(o, k) == IF k \in DOMAIN o THEN o[k] ELSE Undefined

\* { ...a, ...b }: b's properties win
Spread(a, b) ==
  [k \in (DOMAIN a) \cup (DOMAIN b) |-> IF k \in DOMAIN b THEN b[k] ELSE a[k]]

\* const { id, ...rest } = o
Without(o, key) == [k \in (DOMAIN o) \ {key} |-> o[k]]

\* the numeric strings of the model, as StringToNumber reads them
NumericStrings == {"0", "2", "3", "4", "-1"}
StringToInt(s) ==
  CASE s = "0" -> 0
    [] s = "2" -> 2
    [] s = "3" -> 3
    [] s = "4" -> 4
    [] s = "-1" -> 0 - 1

\* Number(v): "" and null give 0, a non-numeric string and undefined give NaN
ToNumber(v) ==
  CASE v.t = "number" -> v
    [] v.t = "NaN" -> NaN
    [] v.t = "null" -> Num(0)
    [] v.t = "undefined" -> NaN
    [] v.t = "string" ->
         IF v.s = "" THEN Num(0)
         ELSE IF v.s \in NumericStrings THEN Num(StringToInt(v.s))
         ELSE NaN

\* parseFloat(s) of an input's value: "" and a non-numeric string give NaN
ParseFloat(s) == IF s \in NumericStrings THEN Num(StringToInt(s)) ELSE NaN

\* String(v)
ToStr(v) ==
  CASE v.t = "string" -> v.s
    [] v.t = "number" -> ToString(v.n)
    [] OTHER -> v.t

\* a + b: numeric addition, or concatenation when an operand is a string
Plus(a, b) ==
  IF a.t = "string" \/ b.t = "string"
  THEN Str(ToStr(a) \o ToStr(b))
  ELSE LET x == ToNumber(a)
           y == ToNumber(b)
       IN IF x.t = "NaN" \/ y.t = "NaN" THEN NaN ELSE Num(x.n + y.n)

-----------------------------------------------------------------------------
(* types.ts: the declared fields of the two identity records *)

PatientFields ==
  {"name", "admissionDate", "dischargeDate", "aadharNumber", "panNumber",
   "dateOfBirth", "gender"}

PolicyHolderFields ==
  {"name", "address", "panNumber", "aadharNumber", "phoneNumber", "email",
   "bankAccountNumber", "bankName", "chequeNumber", "policyNumber"}

BillFields == {"billerName", "billNumber", "billDate", "billAmount"}

-----------------------------------------------------------------------------
(* services/geminiService.ts: extractBillDetailsFromPdf                     *)
(*                                                                         *)
(* The remote call either raises or returns a response whose text is       *)
(* absent, empty or a body between optional code fences.  A body is a JSON *)
(* document (value) or not JSON at all (json = FALSE).  A parsed document  *)
(* is null or an object; its bills member is an array of objects or        *)
(* something else, an identity member is an object or null.                *)
(***************************************************************************)

defaultResponse ==
  [bills |-> <<>>,
   patientDetails |-> [k \in PatientFields |-> Str("")],
   policyHolderDetails |-> [k \in PolicyHolderFields |-> Str("")]]

\* a test that lets every text through to the parser
TextNeverFalsy(text) == FALSE

\* !jsonString
TextIsFalsy(text) == text.kind \in {"absent", "empty"}

\* jsonString.replace(/^```json\n?/, '').replace(/\n?```$/, '')
StripFences(text) == [text EXCEPT !.open = FALSE, !.close = FALSE]

\* JSON.parse raises on a body that is not JSON and on a fence left in place
ParseRaises(text) == text.open \/ text.close \/ ~text.json

\* result && Array.isArray(result.bills) && result.patientDetails && result.policyHolderDetails
StructurallyValid(result) ==
  /\ ~result.isNull
  /\ "bills" \in DOMAIN result.o
  /\ result.o["bills"].isArray
  /\ "patientDetails" \in DOMAIN result.o
  /\ result.o["patientDetails"].isObject
  /\ "policyHolderDetails" \in DOMAIN result.o
  /\ result.o["policyHolderDetails"].isObject

\* a map that leaves out the default of an unusable amount
formattedBillsWithoutDefault(items) ==
  [k \in 1..Len(items) |->
     Spread(items[k], [billAmount |-> ToNumber(Get(items[k], "billAmount"))])]

\* a map that also drops an entry equal to the one before it
RECURSIVE formattedBillsDeduplicated(_)
formattedBillsDeduplicated(items) ==
  IF Len(items) = 0 THEN <<>>
  ELSE LET n == Len(items)
           front == formattedBillsDeduplicated(SubSeq(items, 1, n - 1))
           this == Spread(items[n],
                     [billAmount |-> Or(ToNumber(Get(items[n], "billAmount")), Num(0))])
       IN IF n > 1 /\ items[n] = items[n - 1] THEN front ELSE Append(front, this)

\* result.bills.map(bill => ({ ...bill, billAmount: Number(bill.billAmount) || 0 }))
formattedBills(items) ==
  [k \in 1..Len(items) |->
     Spread(items[k],
            [billAmount |-> Or(ToNumber(Get(items[k], "billAmount")), Num(0))])]

\* a merge that lets the blank defaults win
normalizedPatientDefaultsLast(o) == Spread(o, defaultResponse.patientDetails)

\* geminiService.ts:132  { ...defaultResponse.patientDetails, ...result.patientDetails }
normalizedPatient(o) == Spread(defaultResponse.patientDetails, o)

\* geminiService.ts:133
normalizedPolicyHolder(o) == Spread(defaultResponse.policyHolderDetails, o)

Returned(data) ==
  [status |-> "returned", bills |-> data.bills,
   patientDetails |-> data.patientDetails,
   policyHolderDetails |-> data.policyHolderDetails]

Raised ==
  [status |-> "raised", bills |-> <<>>,
   patientDetails |-> <<>>, policyHolderDetails |-> <<>>]

\* a normalizer that raises where the structural check fails
extractRaisingOnInvalid(remote) ==
  IF remote.raised THEN Raised
  ELSE IF TextIsFalsy(remote.text) THEN Returned(defaultResponse)
  ELSE IF ParseRaises(StripFences(remote.text)) THEN Raised
  ELSE LET result == remote.text.value IN
       IF StructurallyValid(result)
       THEN Returned(
              [bills |-> formattedBills(result.o["bills"].items),
               patientDetails |-> normalizedPatient(result.o["patientDetails"].o),
               policyHolderDetails |->
                 normalizedPolicyHolder(result.o["policyHolderDetails"].o)])
       ELSE Raised

\* geminiService.ts:69-143
extractBillDetailsFromPdf(remote) ==
  IF remote.raised THEN Raised
  ELSE IF TextIsFalsy(remote.text) THEN Returned(defaultResponse)
  ELSE IF ParseRaises(StripFences(remote.text)) THEN Raised
  ELSE LET result == remote.text.value IN
       IF StructurallyValid(result)
       THEN Returned(
              [bills |-> formattedBills(result.o["bills"].items),
               patientDetails |-> normalizedPatient(result.o["patientDetails"].o),
               policyHolderDetails |->
                 normalizedPolicyHolder(result.o["policyHolderDetails"].o)])
       ELSE Returned(defaultResponse)

-----------------------------------------------------------------------------
(* App.tsx: session state *)

initialPatientDetails == [k \in PatientFields |-> Str("")]
initialPolicyHolderDetails == [k \in PolicyHolderFields |-> Str("")]

NoBillsMessage ==
  Str("No bills could be extracted from the provided PDF. Please try a different file.")
ProcessingFailedMessage ==
  Str("An error occurred while processing the PDF. Please ensure it is a valid, unencrypted file and try again.")

\* the documents a user uploads
Files == {"a.pdf", "b.pdf"}

\* Date.now(): the attempts and the adds of a session fall into one millisecond,
\* the case in which the ids differ by their suffix alone
Times == {1}

\* String(Math.random()): a value of [0, 1)
Randoms == {"0", "0.5"}

\* `bill-${Date.now()}-${index}` and `bill-${Date.now()}-${Math.random()}`
BillId(now, suffix) == Str("bill-" \o ToString(now) \o "-" \o suffix)

HasId(bs, id) == \E k \in 1..Len(bs) : bs[k].id = id

-----------------------------------------------------------------------------
(* components/BillTable (part_001): local state, mounting, the effect *)

blankDraft ==
  [billerName |-> Str(""), billNumber |-> Str(""), billDate |-> Str(""),
   billAmount |-> Num(0)]

\* useState initial values (part_001:12-24)
initialTable ==
  [editingRowId |-> Null, editedData |-> blankDraft, newBillData |-> blankDraft]

\* a table that is rendered on the empty ledger too
MountedWhenIdle(loading, bs) == ~loading

\* App.tsx:248  {!isLoading && bills.length > 0 && ( ... <BillTable/> ... )}
Mounted(loading, bs) == ~loading /\ Len(bs) > 0

\* part_001:26-30  the edit reference is dropped when its row is gone
EditEffect(st, bs) ==
  IF Truthy(st.editingRowId) /\ ~HasId(bs, st.editingRowId)
  THEN [st EXCEPT !.editingRowId = Null]
  ELSE st

\* a table whose state outlives its unmounting
TableKeptAcrossRenders(wasMounted, isMounted, st, bs) ==
  IF isMounted /\ wasMounted THEN EditEffect(st, bs) ELSE st

\* The table's state after a render of App: an unmounted table has no
\* state, a table mounted by this render starts from its initial state, and
\* the effect runs after every render of a mounted table.
TableAfterRender(wasMounted, isMounted, st, bs) ==
  IF ~isMounted THEN initialTable
  ELSE EditEffect(IF wasMounted THEN st ELSE initialTable, bs)

\* part_000:10  no identity field is in edit
NoDrafts == [f \in {} |-> Null]

\* App.tsx:248-277  the identity fields are rendered beside the table: an
\* unmounted field has no state, and a field that is not in edit shows the
\* record's value (part_000:13-19)
FieldsAfterRender(isMounted, drafts) == IF isMounted THEN drafts ELSE NoDrafts

tableState ==
  [editingRowId |-> editingRowId, editedData |-> editedData,
   newBillData |-> newBillData]

\* App's new ledger and busy flag are rendered; the table follows
Render(st) ==
  LET after == TableAfterRender(Mounted(isLoading, bills),
                                Mounted(isLoading', bills'), st, bills')
  IN /\ editingRowId' = after.editingRowId
     /\ editedData' = after.editedData
     /\ newBillData' = after.newBillData
     /\ fieldDrafts' = FieldsAfterRender(Mounted(isLoading', bills'), fieldDrafts)

-----------------------------------------------------------------------------
(* App.tsx:137-155  the ledger's handlers *)

\* a delete that fills the hole with the last entry
handleDeleteBillSwap(bs, billId) ==
  IF ~HasId(bs, billId) THEN bs
  ELSE LET k == CHOOSE i \in 1..Len(bs) : bs[i].id = billId
           n == Len(bs)
       IN IF k = n THEN SubSeq(bs, 1, n - 1)
          ELSE SubSeq([bs EXCEPT ![k] = bs[n]], 1, n - 1)

\* prevBills.filter(bill => bill.id !== billId)
handleDeleteBill(bs, billId) == SelectSeq(bs, LAMBDA b : b.id # billId)

\* an update that takes the entry out and puts the new version last
handleUpdateBillMovesLast(bs, billId, updatedData) ==
  IF ~HasId(bs, billId) THEN bs
  ELSE Append(SelectSeq(bs, LAMBDA b : b.id # billId),
              Spread([id |-> billId], updatedData))

\* prevBills.map(bill => bill.id === billId ? { id: billId, ...updatedData } : bill)
handleUpdateBill(bs, billId, updatedData) ==
  [k \in 1..Len(bs) |->
     IF bs[k].id = billId THEN Spread([id |-> billId], updatedData) ELSE bs[k]]

\* an add that puts the new entry first
handleAddBillFirst(bs, draft, now, rnd) ==
  <<Spread([id |-> BillId(now, rnd)], draft)>> \o bs

\* [...prevBills, { id: `bill-${Date.now()}-${Math.random()}`, ...newBillData }]
handleAddBill(bs, draft, now, rnd) ==
  Append(bs, Spread([id |-> BillId(now, rnd)], draft))

\* a total that leaves out the amounts below zero
RECURSIVE ReducePositive(_, _)
ReducePositive(bs, k) ==
  IF k = 0 THEN Num(0)
  ELSE LET a == Or(Get(bs[k], "billAmount"), Num(0)) IN
       IF a.n < 0 THEN ReducePositive(bs, k - 1)
       ELSE Plus(ReducePositive(bs, k - 1), a)
totalAmountOfPositive(bs) == ReducePositive(bs, Len(bs))

\* part_001:79 and App.tsx:160
\* bills.reduce((sum, bill) => sum + (bill.billAmount || 0), 0)
RECURSIVE Reduce(_, _)
Reduce(bs, k) ==
  IF k = 0 THEN Num(0)
  ELSE Plus(Reduce(bs, k - 1), Or(Get(bs[k], "billAmount"), Num(0)))

totalAmount(bs) == Reduce(bs, Len(bs))

-----------------------------------------------------------------------------
(* components/BillTable (part_001): handlers.  A handler is offered by a   *)
(* mounted table only; Edit and Delete are buttons of a display row, Save, *)
(* Cancel and the draft's inputs belong to a row in edit.                  *)

\* what a user types into a text input, and into the amount input
TextInputs == {"", "Z"}
AmountInputs == {"", "4", "-1"}
InputsOf(name) == IF name = "billAmount" THEN AmountInputs ELSE TextInputs
AllInputs == {<<name, v>> : name \in BillFields, v \in TextInputs \cup AmountInputs}
TableInputs == {i \in AllInputs : i[2] \in InputsOf(i[1])}

\* the input events of the session's specification: a new row that passes
\* the check of part_001:66, and a changed amount in the row in edit
SessionNewInputs == {<<"billerName", "Z">>, <<"billDate", "Z">>, <<"billAmount", "-1">>}
SessionEditInputs == {<<"billAmount", "4">>}

\* the input events of the edit session's specification: every field changes
EditInputs ==
  {<<"billerName", "Z">>, <<"billNumber", "Z">>, <<"billDate", "Z">>,
   <<"billAmount", "4">>}

\* amount texts that parseFloat gives NaN for: what a number input reports
\* for text that is no number, and such text itself
UnparsableAmounts == {"", "Z"}

\* the input events of the drafts' specification: amounts that parse and
\* that do not, and for the new-row slot the other fields its check reads
DraftEditInputs ==
  {<<"billAmount", "4">>} \cup {<<"billAmount", v>> : v \in UnparsableAmounts}
DraftNewInputs ==
  {<<"billerName", "Z">>, <<"billDate", "Z">>} \cup DraftEditInputs

\* a draft that takes what parseFloat gives
InputValueUncoerced(name, value) ==
  IF name = "billAmount" THEN ParseFloat(value) ELSE Str(value)

\* [name]: name === 'billAmount' ? parseFloat(value) || 0 : value
InputValue(name, value) ==
  IF name = "billAmount" THEN Or(ParseFloat(value), Num(0)) ELSE Str(value)

\* part_001:117  editingRowId === bill.id
RowInEdit(k) == editingRowId = bills[k].id
EditRowShown == \E k \in 1..Len(bills) : RowInEdit(k)

handleEditClick(k) ==
  /\ Mounted(isLoading, bills)
  /\ k \in 1..Len(bills)
  /\ ~RowInEdit(k)
  /\ editingRowId' = bills[k].id
  /\ editedData' = Without(bills[k], "id")
  /\ alerted' = FALSE
  /\ UNCHANGED <<newBillData, appVars, normVars, sideVars>>

handleCancelClick ==
  /\ Mounted(isLoading, bills)
  /\ EditRowShown
  /\ editingRowId' = Null
  /\ alerted' = FALSE
  /\ UNCHANGED <<editedData, newBillData, appVars, normVars, sideVars>>

handleSaveClick ==
  /\ Mounted(isLoading, bills)
  /\ EditRowShown
  /\ IF Truthy(editingRowId)
     THEN /\ bills' = handleUpdateBill(bills, editingRowId, editedData)
          /\ UNCHANGED isLoading
          /\ Render([tableState EXCEPT !.editingRowId = Null])
     ELSE UNCHANGED <<bills, isLoading, editingRowId, editedData, newBillData,
                      fieldDrafts>>
  /\ alerted' = FALSE
  /\ UNCHANGED <<patientDetails, policyHolderDetails, error, uploadedFile,
                 progress, pc, page, numPages, normVars, isDragging, alertVars,
                 report>>

handleInputChange(name, value) ==
  /\ Mounted(isLoading, bills)
  /\ EditRowShown
  /\ editedData' = Spread(editedData, name :> InputValue(name, value))
  /\ alerted' = FALSE
  /\ UNCHANGED <<editingRowId, newBillData, appVars, normVars, sideVars>>

handleNewBillInputChange(name, value) ==
  /\ Mounted(isLoading, bills)
  /\ newBillData' = Spread(newBillData, name :> InputValue(name, value))
  /\ alerted' = FALSE
  /\ UNCHANGED <<editingRowId, editedData, appVars, normVars, sideVars>>

\* a check that forgets the bill date
AddAcceptedWithoutDate(draft) ==
  /\ Truthy(draft.billerName)
  /\ Truthy(draft.billAmount)

\* part_001:66  newBillData.billerName && newBillData.billDate && newBillData.billAmount
AddAccepted(draft) ==
  /\ Truthy(draft.billerName)
  /\ Truthy(draft.billDate)
  /\ Truthy(draft.billAmount)

handleAddBillClick(now, rnd) ==
  /\ Mounted(isLoading, bills)
  /\ IF AddAccepted(newBillData)
     THEN /\ Len(bills) < MaxBills
          /\ bills' = handleAddBill(bills, newBillData, now, rnd)
          /\ UNCHANGED isLoading
          /\ Render([tableState EXCEPT !.newBillData = blankDraft])
          /\ alerted' = FALSE
     ELSE /\ alerted' = TRUE
          /\ UNCHANGED <<bills, isLoading, editingRowId, editedData, newBillData,
                         fieldDrafts>>
  /\ UNCHANGED <<patientDetails, policyHolderDetails, error, uploadedFile,
                 progress, pc, page, numPages, normVars, isDragging, alertVars,
                 report>>

\* part_001:149  onClick={() => onDeleteBill(bill.id)}
DeleteClick(k) ==
  /\ Mounted(isLoading, bills)
  /\ k \in 1..Len(bills)
  /\ ~RowInEdit(k)
  /\ bills' = handleDeleteBill(bills, bills[k].id)
  /\ UNCHANGED isLoading
  /\ Render(tableState)
  /\ alerted' = FALSE
  /\ UNCHANGED <<patientDetails, policyHolderDetails, error, uploadedFile,
                 progress, pc, page, numPages, normVars, isDragging, alertVars,
                 report>>

-----------------------------------------------------------------------------
(* components/EditableField (part_000) and its uses in App.tsx:253-275.    *)
(* A field is named by its record and its property.  A field in edit has   *)
(* its currentValue in fieldDrafts; one that is not shows the record's     *)
(* value, which the effect of part_000:13-19 copies after every render.    *)

\* the fields the session edits
EditedFields ==
  {<<"patient", "name">>, <<"patient", "gender">>, <<"policyHolder", "name">>}

\* what is typed into a field's input
FieldTexts == {"", "Z"}

\* App.tsx:253-275  value={patientDetails.name} and so on
FieldValue(f) ==
  IF f[1] = "patient" THEN patientDetails[f[2]] ELSE policyHolderDetails[f[2]]

\* part_000:41, 62  the edit button is shown / the input and Save are shown
FieldInEdit(f) == f \in DOMAIN fieldDrafts

\* a save that keeps nothing of the record but the field saved
patchFieldWholesale(p, name, val) == [k \in {name} |-> val]

\* App.tsx:253-275  p => ({...p, name: val})
patchField(p, name, val) == Spread(p, [k \in {name} |-> val])

\* part_000:62  onClick={() => setIsEditing(true)}
FieldEditClick(f) ==
  /\ Mounted(isLoading, bills)
  /\ ~FieldInEdit(f)
  /\ fieldDrafts' =
       [g \in DOMAIN fieldDrafts \cup {f} |->
          IF g = f THEN FieldValue(f) ELSE fieldDrafts[g]]
  /\ UNCHANGED <<appVars, tableVars, normVars, isDragging, alertVars, report>>

\* part_000:47  onChange={(e) => setCurrentValue(e.target.value)}
FieldInput(f, text) ==
  /\ Mounted(isLoading, bills)
  /\ FieldInEdit(f)
  /\ fieldDrafts' = [fieldDrafts EXCEPT ![f] = Str(text)]
  /\ UNCHANGED <<appVars, tableVars, normVars, isDragging, alertVars, report>>

\* part_000:21-24  handleSave, by the Save button or the Enter key
FieldSave(f) ==
  /\ Mounted(isLoading, bills)
  /\ FieldInEdit(f)
  /\ IF f[1] = "patient"
     THEN /\ patientDetails' = patchField(patientDetails, f[2], fieldDrafts[f])
          /\ UNCHANGED policyHolderDetails
     ELSE /\ policyHolderDetails' =
               patchField(policyHolderDetails, f[2], fieldDrafts[f])
          /\ UNCHANGED patientDetails
  /\ fieldDrafts' = [g \in DOMAIN fieldDrafts \ {f} |-> fieldDrafts[g]]
  /\ UNCHANGED <<bills, isLoading, error, uploadedFile, progress, pc, page,
                 numPages>>
  /\ UNCHANGED <<tableVars, normVars, isDragging, alertVars, report>>

\* part_000:26-29  handleCancel, by the Cancel button or the Escape key
FieldCancel(f) ==
  /\ Mounted(isLoading, bills)
  /\ FieldInEdit(f)
  /\ fieldDrafts' = [g \in DOMAIN fieldDrafts \ {f} |-> fieldDrafts[g]]
  /\ UNCHANGED <<appVars, tableVars, normVars, isDragging, alertVars, report>>

-----------------------------------------------------------------------------
(* What the remote service answers *)

EmptyObject == [k \in {} |-> Null]

billFull ==
  [billerName |-> Str("A"), billNumber |-> Str("N1"), billDate |-> Str("D1"),
   billAmount |-> Num(3)]
billStringAmount ==
  [billerName |-> Str("B"), billNumber |-> Str("N2"), billDate |-> Str("D2"),
   billAmount |-> Str("2")]
billUnparsable ==
  [billerName |-> Str("C"), billDate |-> Str("D3"), billAmount |-> Str("abc")]
billNoAmount ==
  [billerName |-> Str("D"), billNumber |-> Str("N4"), billDate |-> Str("D4"),
   id |-> Str("bill-1-0")]

patientNameOnly == [name |-> Str("A")]
patientNullGender ==
  [name |-> Str("A"), admissionDate |-> Str("T1"), dischargeDate |-> Str("T2"),
   gender |-> Null]
patientNumberName == [name |-> Num(5), age |-> Num(40)]

policyRequired == [name |-> Str("B"), policyNumber |-> Str("P1")]
policyNullNumber ==
  [name |-> Str("B"), policyNumber |-> Null, email |-> Str("e")]

ArrayOf(items) ==
  [isArray |-> TRUE, isObject |-> FALSE, items |-> items, o |-> EmptyObject]
ObjectOf(o) == [isArray |-> FALSE, isObject |-> TRUE, items |-> <<>>, o |-> o]
NullMember ==
  [isArray |-> FALSE, isObject |-> FALSE, items |-> <<>>, o |-> EmptyObject]

Doc(items, patient, policy) ==
  [isNull |-> FALSE,
   o |-> [bills |-> ArrayOf(items), patientDetails |-> ObjectOf(patient),
          policyHolderDetails |-> ObjectOf(policy)]]
NullDoc == [isNull |-> TRUE, o |-> EmptyObject]

\* documents that fail the structural check of geminiService.ts:125
InvalidDocs ==
  {NullDoc,
   [isNull |-> FALSE,
    o |-> [patientDetails |-> ObjectOf(patientNameOnly),
           policyHolderDetails |-> ObjectOf(policyRequired)]],
   [isNull |-> FALSE,
    o |-> [bills |-> ObjectOf(billFull),
           patientDetails |-> ObjectOf(patientNameOnly),
           policyHolderDetails |-> ObjectOf(policyRequired)]],
   [isNull |-> FALSE,
    o |-> [bills |-> ArrayOf(<<billFull>>), patientDetails |-> NullMember,
           policyHolderDetails |-> ObjectOf(policyRequired)]],
   [isNull |-> FALSE,
    o |-> [bills |-> ArrayOf(<<billFull>>),
           patientDetails |-> ObjectOf(patientNameOnly)]]}

Answer(text) == [raised |-> FALSE, text |-> text]
Body(open, close, doc) ==
  [kind |-> "body", open |-> open, close |-> close, json |-> TRUE, value |-> doc]
AbsentText ==
  [kind |-> "absent", open |-> FALSE, close |-> FALSE, json |-> FALSE, value |-> NullDoc]
EmptyText ==
  [kind |-> "empty", open |-> FALSE, close |-> FALSE, json |-> FALSE, value |-> NullDoc]
NotJson(open, close) ==
  [kind |-> "body", open |-> open, close |-> close, json |-> FALSE, value |-> NullDoc]
CallRaises == [raised |-> TRUE, text |-> AbsentText]

\* the answers an extraction attempt of the session meets
SessionRemotes ==
  {CallRaises, Answer(AbsentText), Answer(NotJson(FALSE, FALSE)),
   Answer(Body(FALSE, FALSE, NullDoc)),
   Answer(Body(TRUE, TRUE, Doc(<<>>, patientNameOnly, policyRequired))),
   Answer(Body(TRUE, TRUE, Doc(<<billFull, billStringAmount>>,
                               patientNameOnly, policyRequired))),
   Answer(Body(FALSE, FALSE, Doc(<<billUnparsable, billFull, billFull>>,
                                 patientNullGender, EmptyObject)))}

-----------------------------------------------------------------------------
(* App.tsx:42-109  processPdf and getPdfImages *)

NoFile == "null"

\* nothing compiled yet
NoReport == [window |-> "none"]

\* part_002:9, App.tsx:29-34: nothing dragged, no check, nothing compiled
initialSide ==
  /\ isDragging = FALSE
  /\ isCheckingAlerts = FALSE
  /\ alertResult = Null
  /\ alertError = Null
  /\ checkPc = "idle"
  /\ checkFile = NoFile
  /\ report = NoReport
  /\ fieldDrafts = NoDrafts

\* Math.round(x / y) for x >= 0, y > 0
RoundDiv(x, y) == (2 * x + y) \div (2 * y)

\* ids that give way to an id the response carries
billsWithIdsOfResponse(bs, now) ==
  [k \in 1..Len(bs) |-> Spread([id |-> BillId(now, ToString(k - 1))], bs[k])]

\* App.tsx:93-96
billsWithIds(bs, now) ==
  [k \in 1..Len(bs) |-> Spread(bs[k], [id |-> BillId(now, ToString(k - 1))])]

\* an attempt that keeps what the ledger and the records held
StartUploadKeepingLedger(file, n) ==
  /\ isLoading' = TRUE
  /\ error' = Null
  /\ uploadedFile' = file
  /\ progress' = 0
  /\ pc' = "raster"
  /\ page' = 0
  /\ numPages' = n
  /\ UNCHANGED <<bills, patientDetails, policyHolderDetails>>
  /\ Render(tableState)
  /\ alerted' = FALSE
  /\ UNCHANGED <<normVars, alertVars, report>>

\* App.tsx:68-78  processPdf up to its first await, on a document of n pages
StartUpload(file, n) ==
  /\ isLoading' = TRUE
  /\ error' = Null
  /\ bills' = <<>>
  /\ patientDetails' = initialPatientDetails
  /\ policyHolderDetails' = initialPolicyHolderDetails
  /\ uploadedFile' = file
  /\ progress' = 0
  /\ pc' = "raster"
  /\ page' = 0
  /\ numPages' = n
  /\ Render(tableState)
  /\ alerted' = FALSE
  /\ UNCHANGED <<normVars, alertVars, report>>

\* an upload control that is never disabled
FileUploadNeverDisabled == FALSE

\* App.tsx:313  <FileUpload onFileSelect={processPdf} disabled={isLoading} />
FileUploadDisabled == isLoading

PdfType == "application/pdf"
DropTypes == {PdfType, "image/png"}

\* part_002:11-16, 61-68  the file picker; a disabled input takes no file
handleFileChange(file, n) ==
  /\ ~FileUploadDisabled
  /\ StartUpload(file, n)
  /\ UNCHANGED isDragging

\* part_002:18-27  a file of the given type is dropped on the control
handleDrop(file, type, n) ==
  /\ isDragging' = FALSE
  /\ IF ~FileUploadDisabled /\ type = PdfType
     THEN StartUpload(file, n)
     ELSE UNCHANGED <<appVars, tableVars, normVars, alertVars, report, fieldDrafts>>

\* part_002:34-40
handleDragEnter ==
  /\ isDragging' = (IF ~FileUploadDisabled THEN TRUE ELSE isDragging)
  /\ UNCHANGED <<appVars, tableVars, normVars, alertVars, report, fieldDrafts>>

\* part_002:42-46
handleDragLeave ==
  /\ isDragging' = FALSE
  /\ UNCHANGED <<appVars, tableVars, normVars, alertVars, report, fieldDrafts>>

\* a callback that passes the page percentage on unscaled
onProgressUnscaled(p) == p * 100

\* App.tsx:79  (p) => setProgress(p * 0.75), in hundredths of a percent
onProgress(p) == p * 75

\* App.tsx:48-62 with the callback of App.tsx:79: a page is rendered
PageRendered ==
  /\ pc = "raster"
  /\ page < numPages
  /\ page' = page + 1
  /\ progress' = onProgress(RoundDiv((page + 1) * 100, numPages))
  /\ UNCHANGED <<bills, patientDetails, policyHolderDetails, isLoading, error,
                 uploadedFile, pc, numPages, tableVars, normVars, sideVars>>

\* App.tsx:53  if (!context) continue
PageSkipped ==
  /\ pc = "raster"
  /\ page < numPages
  /\ page' = page + 1
  /\ UNCHANGED <<bills, patientDetails, policyHolderDetails, isLoading, error,
                 uploadedFile, progress, pc, numPages, tableVars, normVars, sideVars>>

\* App.tsx:81-84  the images are there, the remote call is issued
RemoteCallIssued ==
  /\ pc = "raster"
  /\ page = numPages
  /\ pc' = "remote"
  /\ progress' = 8000
  /\ page' = 0
  /\ numPages' = 0
  /\ UNCHANGED <<bills, patientDetails, policyHolderDetails, isLoading, error,
                 uploadedFile, tableVars, normVars, sideVars>>

\* a failure path without the finally of App.tsx:106-108
FailedWithoutFinally ==
  /\ error' = ProcessingFailedMessage
  /\ uploadedFile' = NoFile
  /\ pc' = "idle"
  /\ page' = 0
  /\ numPages' = 0
  /\ UNCHANGED <<bills, patientDetails, policyHolderDetails, progress, alerted,
                 isLoading, normVars, isDragging, alertVars, report>>
  /\ Render(tableState)

\* App.tsx:102-108
Failed ==
  /\ error' = ProcessingFailedMessage
  /\ uploadedFile' = NoFile
  /\ isLoading' = FALSE
  /\ pc' = "idle"
  /\ page' = 0
  /\ numPages' = 0
  /\ UNCHANGED <<bills, patientDetails, policyHolderDetails, progress, alerted,
                 normVars, isDragging, alertVars, report>>
  /\ Render(tableState)

\* rasterization raises (App.tsx:43-58)
RasterRaises ==
  /\ pc = "raster"
  /\ Failed

\* an outcome that lets go of the file whatever was extracted
SettleForgettingFile(extractedData, now) ==
     IF extractedData.status = "raised" THEN Failed
     ELSE /\ progress' = 10000
          /\ uploadedFile' = NoFile
          /\ IF Len(extractedData.bills) = 0
             THEN /\ error' = NoBillsMessage
                  /\ UNCHANGED <<bills, patientDetails, policyHolderDetails>>
             ELSE /\ bills' = billsWithIds(extractedData.bills, now)
                  /\ patientDetails' = extractedData.patientDetails
                  /\ policyHolderDetails' = extractedData.policyHolderDetails
                  /\ UNCHANGED error
          /\ isLoading' = FALSE
          /\ pc' = "idle"
          /\ Render(tableState)
          /\ UNCHANGED <<page, numPages, alerted, normVars, isDragging,
                         alertVars, report>>

\* App.tsx:84-108  what processPdf does with the outcome of the extraction call
Settle(extractedData, now) ==
     IF extractedData.status = "raised" THEN Failed
     ELSE /\ progress' = 10000
          /\ IF Len(extractedData.bills) = 0
             THEN /\ error' = NoBillsMessage
                  /\ uploadedFile' = NoFile
                  /\ UNCHANGED <<bills, patientDetails, policyHolderDetails>>
             ELSE /\ bills' = billsWithIds(extractedData.bills, now)
                  /\ patientDetails' = extractedData.patientDetails
                  /\ policyHolderDetails' = extractedData.policyHolderDetails
                  /\ UNCHANGED <<error, uploadedFile>>
          /\ isLoading' = FALSE
          /\ pc' = "idle"
          /\ Render(tableState)
          /\ UNCHANGED <<page, numPages, alerted, normVars, isDragging,
                         alertVars, report>>

\* App.tsx:84  the remote call settles
RemoteSettles(remote, now) ==
  /\ pc = "remote"
  /\ Settle(extractBillDetailsFromPdf(remote), now)

-----------------------------------------------------------------------------
(* App.tsx:111-135  the anomaly check *)

NoFileMessage == Str("No file is available to check.")
CheckFailedMessage ==
  Str("An error occurred while checking the document for anomalies.")

\* an Alert button that is never disabled
AlertNeverDisabled == FALSE

\* App.tsx:298  disabled={isCheckingAlerts}
AlertDisabled == isCheckingAlerts

\* App.tsx:294  the Alert and Generate PDF buttons are rendered
ActionsShown == ~isLoading /\ Len(bills) > 0

\* App.tsx:322  the modal is rendered
ModalShown == isCheckingAlerts \/ Truthy(alertResult) \/ Truthy(alertError)

\* geminiService.ts:175  response.text of the check of a document: the
\* findings, or nothing
CheckTexts(file) == {Str("findings on " \o file), Undefined}

\* a click on Alert that leaves the advisory error of the last check
handleAlertCheckKeepingError ==
  /\ ActionsShown
  /\ ~AlertDisabled
  /\ IF uploadedFile = NoFile
     THEN /\ alertError' = NoFileMessage
          /\ UNCHANGED <<isCheckingAlerts, alertResult, checkPc, checkFile>>
     ELSE /\ isCheckingAlerts' = TRUE
          /\ alertResult' = Null
          /\ checkPc' = "raster"
          /\ checkFile' = uploadedFile
          /\ UNCHANGED alertError
  /\ UNCHANGED <<appVars, tableVars, normVars, isDragging, report, fieldDrafts>>

\* App.tsx:111-119  a click on Alert, up to the first await
handleAlertCheck ==
  /\ ActionsShown
  /\ ~AlertDisabled
  /\ IF uploadedFile = NoFile
     THEN /\ alertError' = NoFileMessage
          /\ UNCHANGED <<isCheckingAlerts, alertResult, checkPc, checkFile>>
     ELSE /\ isCheckingAlerts' = TRUE
          /\ alertResult' = Null
          /\ alertError' = Null
          /\ checkPc' = "raster"
          /\ checkFile' = uploadedFile
  /\ UNCHANGED <<appVars, tableVars, normVars, isDragging, report, fieldDrafts>>

\* a check whose rasterization reports its pages to the progress bar
CheckRasterizedWithProgress ==
  /\ checkPc = "raster"
  /\ checkPc' = "remote"
  /\ progress' = onProgress(100)
  /\ UNCHANGED <<isCheckingAlerts, alertResult, alertError, checkFile>>
  /\ UNCHANGED <<bills, patientDetails, policyHolderDetails, isLoading, error,
                 uploadedFile, pc, page, numPages>>
  /\ UNCHANGED <<tableVars, normVars, isDragging, report, fieldDrafts>>

\* App.tsx:121  getPdfImages(uploadedFile, () => {}) returns
CheckRasterized ==
  /\ checkPc = "raster"
  /\ checkPc' = "remote"
  /\ UNCHANGED <<isCheckingAlerts, alertResult, alertError, checkFile>>
  /\ UNCHANGED <<appVars, tableVars, normVars, isDragging, report, fieldDrafts>>

\* App.tsx:124-129  catch and finally of handleAlertCheck
CheckFailed ==
  /\ alertError' = CheckFailedMessage
  /\ isCheckingAlerts' = FALSE
  /\ checkPc' = "idle"
  /\ checkFile' = NoFile
  /\ UNCHANGED alertResult
  /\ UNCHANGED <<appVars, tableVars, normVars, isDragging, report, fieldDrafts>>

\* App.tsx:121  getPdfImages raises
CheckRasterRaises ==
  /\ checkPc = "raster"
  /\ CheckFailed

\* App.tsx:122, geminiService.ts:177-180  checkForAnomalies raises
CheckRemoteRaises ==
  /\ checkPc = "remote"
  /\ CheckFailed

\* App.tsx:122-123, 127-129  checkForAnomalies returns
CheckReturns(text) ==
  /\ checkPc = "remote"
  /\ alertResult' = text
  /\ isCheckingAlerts' = FALSE
  /\ checkPc' = "idle"
  /\ checkFile' = NoFile
  /\ UNCHANGED alertError
  /\ UNCHANGED <<appVars, tableVars, normVars, isDragging, report, fieldDrafts>>

\* App.tsx:132-135
closeAlertModal ==
  /\ ModalShown
  /\ alertResult' = Null
  /\ alertError' = Null
  /\ UNCHANGED <<isCheckingAlerts, checkPc, checkFile>>
  /\ UNCHANGED <<appVars, tableVars, normVars, isDragging, report, fieldDrafts>>

-----------------------------------------------------------------------------
(* App.tsx:157-217  handleGeneratePdf *)

\* three digits of a group
Pad3(m) ==
  IF m < 10 THEN "00" \o ToString(m)
  ELSE IF m < 100 THEN "0" \o ToString(m)
  ELSE ToString(m)

\* the en-US grouping of a natural number
RECURSIVE Grouped(_)
Grouped(n) ==
  IF n < 1000 THEN ToString(n)
  ELSE Grouped(n \div 1000) \o "," \o Pad3(n % 1000)

\* App.tsx:161-164  Intl.NumberFormat('en-US', two fraction digits).format
reportFormatAmount(v) ==
  IF v.t = "number"
  THEN IF v.n < 0 THEN "-" \o Grouped(0 - v.n) \o ".00" ELSE Grouped(v.n) \o ".00"
  ELSE "NaN"

\* App.tsx:160  bills.reduce((sum, bill) => sum + (bill.billAmount || 0), 0)
RECURSIVE reportReduce(_, _)
reportReduce(bs, k) ==
  IF k = 0 THEN Num(0)
  ELSE Plus(reportReduce(bs, k - 1), Or(Get(bs[k], "billAmount"), Num(0)))

reportTotalAmount(bs) == reportReduce(bs, Len(bs))

\* two fraction digits and no grouping
formatAmountUngrouped(v) ==
  IF v.t = "number"
  THEN IF v.n < 0 THEN "-" \o ToString(0 - v.n) \o ".00" ELSE ToString(v.n) \o ".00"
  ELSE "NaN"

\* part_001:81-86  the table's Intl.NumberFormat('en-US', two fraction
\* digits).format
formatAmount(v) ==
  IF v.t = "number"
  THEN IF v.n < 0 THEN "-" \o Grouped(0 - v.n) \o ".00" ELSE Grouped(v.n) \o ".00"
  ELSE "NaN"

\* a body that lists the ledger from its last entry to its first
reportBodyReversed(bs) ==
  [k \in 1..Len(bs) |->
     <<Num(k), Get(bs[Len(bs) + 1 - k], "billerName"),
       Get(bs[Len(bs) + 1 - k], "billNumber"),
       Get(bs[Len(bs) + 1 - k], "billDate"),
       reportFormatAmount(Get(bs[Len(bs) + 1 - k], "billAmount"))>>]

\* App.tsx:181-187  one row per bill
reportBody(bs) ==
  [k \in 1..Len(bs) |->
     <<Num(k), Get(bs[k], "billerName"), Get(bs[k], "billNumber"),
       Get(bs[k], "billDate"), reportFormatAmount(Get(bs[k], "billAmount"))>>]

\* App.tsx:166-201  the document handed to the new window
compiledReport(bs, p, q) ==
  [window |-> "opened",
   title |-> "Annexure-I",
   patientName |-> ToStr(p["name"]),
   policyNumber |-> ToStr(q["policyNumber"]),
   body |-> reportBody(bs),
   foot |-> reportFormatAmount(reportTotalAmount(bs))]

\* App.tsx:175-176  doc.text is given the two header values; what jsPDF does
\* with one that is no string is the library's: it prints it or it raises
HeaderIsText(p, q) == IsString(p["name"]) /\ IsString(q["policyNumber"])

\* a compiler that reverses the ledger it prints
handleGeneratePdfReversing(opened, raises) ==
  /\ ActionsShown
  /\ report' = compiledReport(bills, patientDetails, policyHolderDetails)
  /\ bills' = [k \in 1..Len(bills) |-> bills[Len(bills) + 1 - k]]
  /\ UNCHANGED <<patientDetails, policyHolderDetails, isLoading, error,
                 uploadedFile, progress, pc, page, numPages>>
  /\ UNCHANGED <<tableVars, normVars, isDragging, alertVars, fieldDrafts>>

\* App.tsx:157-217  a click on Generate PDF; window.open gives a window or
\* null (App.tsx:202-216)
handleGeneratePdf(opened, raises) ==
  /\ ActionsShown
  /\ raises => ~HeaderIsText(patientDetails, policyHolderDetails)
  /\ report' =
       IF raises THEN [window |-> "raised"]
       ELSE IF opened
       THEN compiledReport(bills, patientDetails, policyHolderDetails)
       ELSE [window |-> "blocked"]
  /\ UNCHANGED <<appVars, tableVars, normVars, isDragging, alertVars, fieldDrafts>>

-----------------------------------------------------------------------------
(* The session: uploads, extraction outcomes and the bill table *)

NotNormalizing == [raised |-> TRUE, text |-> AbsentText]
NothingExtracted ==
  [status |-> "none", bills |-> <<>>, patientDetails |-> <<>>,
   policyHolderDetails |-> <<>>]

Init ==
  /\ bills = <<>>
  /\ patientDetails = initialPatientDetails
  /\ policyHolderDetails = initialPolicyHolderDetails
  /\ isLoading = FALSE
  /\ error = Null
  /\ uploadedFile = NoFile
  /\ progress = 0
  /\ pc = "idle"
  /\ page = 0
  /\ numPages = 0
  /\ editingRowId = initialTable.editingRowId
  /\ editedData = initialTable.editedData
  /\ newBillData = initialTable.newBillData
  /\ alerted = FALSE
  /\ response = NotNormalizing
  /\ extracted = NothingExtracted
  /\ initialSide

Next ==
  \/ \E f \in Files, n \in 1..MaxPages : handleFileChange(f, n)
  \/ PageRendered
  \/ PageSkipped
  \/ RemoteCallIssued
  \/ RasterRaises
  \/ \E r \in SessionRemotes, now \in Times : RemoteSettles(r, now)
  \/ \E k \in 1..MaxBills : handleEditClick(k)
  \/ handleCancelClick
  \/ handleSaveClick
  \/ \E i \in SessionEditInputs : handleInputChange(i[1], i[2])
  \/ \E i \in SessionNewInputs : handleNewBillInputChange(i[1], i[2])
  \/ \E now \in Times, rnd \in Randoms : handleAddBillClick(now, rnd)
  \/ \E k \in 1..MaxBills : DeleteClick(k)

Spec == Init /\ [][Next]_vars

-----------------------------------------------------------------------------
(* The normalizer alone: one answer of the remote service, normalized *)

SeqsUpTo(S, n) == UNION {[1..m -> S] : m \in 0..n}

RespBills == {billFull, billStringAmount, billUnparsable, billNoAmount}
RespPatients == {EmptyObject, patientNameOnly, patientNullGender, patientNumberName}
RespPolicies == {EmptyObject, policyRequired, policyNullNumber}

ValidDocs ==
  {Doc(items, p, q) : items \in SeqsUpTo(RespBills, MaxRespBills),
                      p \in RespPatients, q \in RespPolicies}

NormRemotes ==
  {CallRaises, Answer(AbsentText), Answer(EmptyText),
   Answer(NotJson(FALSE, FALSE)), Answer(NotJson(TRUE, TRUE))}
  \cup {Answer(Body(f, f, d)) : f \in BOOLEAN, d \in InvalidDocs \cup ValidDocs}

\* an attempt whose remote call is out (App.tsx:84)
InitNorm ==
  /\ bills = <<>>
  /\ patientDetails = initialPatientDetails
  /\ policyHolderDetails = initialPolicyHolderDetails
  /\ isLoading = TRUE
  /\ error = Null
  /\ uploadedFile = "a.pdf"
  /\ progress = 8000
  /\ pc = "remote"
  /\ page = 0
  /\ numPages = 0
  /\ editingRowId = initialTable.editingRowId
  /\ editedData = initialTable.editedData
  /\ newBillData = initialTable.newBillData
  /\ alerted = FALSE
  /\ response \in NormRemotes
  /\ extracted = NothingExtracted
  /\ initialSide

Normalize ==
  /\ extracted.status = "none"
  /\ extracted' = extractBillDetailsFromPdf(response)
  /\ UNCHANGED <<response, appVars, tableVars, sideVars>>

\* App.tsx:84-108  processPdf takes what the normalizer gave
Deliver(now) ==
  /\ pc = "remote"
  /\ extracted.status # "none"
  /\ Settle(extracted, now)

NextNorm ==
  \/ Normalize
  \/ \E now \in Times : Deliver(now)

SpecNorm == InitNorm /\ [][NextNorm]_vars

-----------------------------------------------------------------------------
(* The extraction attempts alone: both intake paths and every outcome *)

UploadRemotes ==
  SessionRemotes
  \cup {Answer(EmptyText), Answer(NotJson(TRUE, TRUE))}
  \cup {Answer(Body(f, f, d)) : f \in BOOLEAN, d \in InvalidDocs}
  \cup {Answer(Body(FALSE, FALSE, Doc(<<b>>, p, q))) :
          b \in RespBills, p \in RespPatients, q \in RespPolicies}

NextUpload ==
  \/ \E f \in Files, n \in 1..MaxPages : handleFileChange(f, n)
  \/ \E f \in Files, t \in DropTypes, n \in 1..MaxPages : handleDrop(f, t, n)
  \/ handleDragEnter
  \/ handleDragLeave
  \/ PageRendered
  \/ PageSkipped
  \/ RemoteCallIssued
  \/ RasterRaises
  \/ \E r \in UploadRemotes, now \in Times : RemoteSettles(r, now)

SpecUpload == Init /\ [][NextUpload]_vars

-----------------------------------------------------------------------------
(* The bill table alone, on a ledger an extraction has seeded *)

InitTable ==
  \E r \in SessionRemotes, now \in Times :
    LET data == extractBillDetailsFromPdf(r) IN
    /\ data.status = "returned"
    /\ Len(data.bills) > 0
    /\ bills = billsWithIds(data.bills, now)
    /\ patientDetails = data.patientDetails
    /\ policyHolderDetails = data.policyHolderDetails
    /\ isLoading = FALSE
    /\ error = Null
    /\ uploadedFile = "a.pdf"
    /\ progress = 10000
    /\ pc = "idle"
    /\ page = 0
    /\ numPages = 0
    /\ editingRowId = initialTable.editingRowId
    /\ editedData = initialTable.editedData
    /\ newBillData = initialTable.newBillData
    /\ alerted = FALSE
    /\ response = NotNormalizing
    /\ extracted = NothingExtracted
    /\ initialSide
  /\ initialSide

\* the new-row slot
NextAdd ==
  \/ \E i \in TableInputs : handleNewBillInputChange(i[1], i[2])
  \/ \E now \in Times, rnd \in Randoms : handleAddBillClick(now, rnd)
  \/ \E k \in 1..MaxBills : DeleteClick(k)

SpecAdd == InitTable /\ [][NextAdd]_vars

\* the edit session
NextEdit ==
  \/ \E k \in 1..MaxBills : handleEditClick(k)
  \/ \E i \in EditInputs : handleInputChange(i[1], i[2])
  \/ handleSaveClick
  \/ handleCancelClick
  \/ \E k \in 1..MaxBills : DeleteClick(k)

SpecEdit == InitTable /\ [][NextEdit]_vars

\* the two drafts: the row in edit and the new-row slot, with amounts that
\* do not parse
NextDraft ==
  \/ \E k \in 1..MaxBills : handleEditClick(k)
  \/ \E i \in DraftEditInputs : handleInputChange(i[1], i[2])
  \/ handleSaveClick
  \/ \E i \in DraftNewInputs : handleNewBillInputChange(i[1], i[2])
  \/ \E now \in Times, rnd \in Randoms : handleAddBillClick(now, rnd)

SpecDraft == InitTable /\ [][NextDraft]_vars

\* the report compiler on the ledgers extraction can seed
InitReport ==
  \E d \in ValidDocs, now \in Times :
    LET data == extractBillDetailsFromPdf(Answer(Body(FALSE, FALSE, d))) IN
    /\ data.status = "returned"
    /\ Len(data.bills) > 0
    /\ bills = billsWithIds(data.bills, now)
    /\ patientDetails = data.patientDetails
    /\ policyHolderDetails = data.policyHolderDetails
    /\ isLoading = FALSE
    /\ error = Null
    /\ uploadedFile = "a.pdf"
    /\ progress = 10000
    /\ pc = "idle"
    /\ page = 0
    /\ numPages = 0
    /\ editingRowId = initialTable.editingRowId
    /\ editedData = initialTable.editedData
    /\ newBillData = initialTable.newBillData
    /\ alerted = FALSE
    /\ response = NotNormalizing
    /\ extracted = NothingExtracted
    /\ initialSide

NextReport ==
  \/ \E opened \in BOOLEAN, raises \in BOOLEAN : handleGeneratePdf(opened, raises)
  \/ \E k \in 1..MaxBills : DeleteClick(k)

SpecReport == InitReport /\ [][NextReport]_vars

\* anomaly checks and the uploads that can fall into them
NextAlert ==
  \/ handleAlertCheck
  \/ CheckRasterized
  \/ CheckRasterRaises
  \/ CheckRemoteRaises
  \/ \E t \in CheckTexts(checkFile) : CheckReturns(t)
  \/ closeAlertModal
  \/ \E f \in Files, n \in 1..MaxPages : handleFileChange(f, n)
  \/ PageRendered
  \/ PageSkipped
  \/ RemoteCallIssued
  \/ RasterRaises
  \/ \E r \in SessionRemotes, now \in Times : RemoteSettles(r, now)

SpecAlert == InitTable /\ [][NextAlert]_vars

\* what the session holds and what it offers: uploads with every outcome,
\* the new-row slot and deletes on the ledger they leave, and anomaly checks
NextGate ==
  \/ \E f \in Files, n \in 1..MaxPages : handleFileChange(f, n)
  \/ PageRendered
  \/ PageSkipped
  \/ RemoteCallIssued
  \/ RasterRaises
  \/ \E r \in SessionRemotes, now \in Times : RemoteSettles(r, now)
  \/ \E i \in SessionNewInputs : handleNewBillInputChange(i[1], i[2])
  \/ \E now \in Times, rnd \in Randoms : handleAddBillClick(now, rnd)
  \/ \E k \in 1..MaxBills : DeleteClick(k)
  \/ handleAlertCheck
  \/ CheckRasterized
  \/ CheckRasterRaises
  \/ CheckRemoteRaises
  \/ \E t \in CheckTexts(checkFile) : CheckReturns(t)
  \/ closeAlertModal

SpecGate == Init /\ [][NextGate]_vars

\* the identity fields alone, beside a seeded ledger whose rows can be
\* deleted down to none
NextIdentity ==
  \/ \E f \in EditedFields : FieldEditClick(f)
  \/ \E f \in EditedFields, text \in FieldTexts : FieldInput(f, text)
  \/ \E f \in EditedFields : FieldSave(f)
  \/ \E f \in EditedFields : FieldCancel(f)
  \/ \E k \in 1..MaxBills : DeleteClick(k)

SpecIdentity == InitTable /\ [][NextIdentity]_vars

-----------------------------------------------------------------------------
(* Properties *)

RECURSIVE SumOfAmounts(_)
SumOfAmounts(bs) ==
  IF Len(bs) = 0 THEN 0 ELSE Head(bs).billAmount.n + SumOfAmounts(Tail(bs))

\* C1: in every state reachable by extraction seeding, add, update and
\* delete, every entry's billAmount is a number and the total the table
\* shows is the arithmetic sum of the billAmount of exactly the entries in
\* the ledger; it is 0 for the empty ledger.
C1_TotalIsSum ==
  /\ \A k \in 1..Len(bills) :
       "billAmount" \in DOMAIN bills[k] /\ IsNumber(bills[k].billAmount)
  /\ totalAmount(bills) = Num(SumOfAmounts(bills))
  /\ (Len(bills) = 0 => totalAmount(bills) = Num(0))

\* a seeded ledger after a delete, an add (amount -1) and an update (amount 4)
C1_Witness ==
  /\ Len(bills) = 2
  /\ bills[1].billAmount = Num(4)
  /\ bills[2].billAmount = Num(0 - 1)
  /\ totalAmount(bills) = Num(3)

\* the claim's reading of a draft that is to be rejected
DraftLacksRequired(d) ==
  d.billerName = Str("") \/ d.billDate = Str("") \/ d.billAmount = Num(0)

AddAttempt == \E now \in Times, rnd \in Randoms : handleAddBillClick(now, rnd)

\* C2: an add attempt whose draft has an empty billerName, an empty billDate
\* or a billAmount of 0 leaves the ledger exactly as it was.
C2_RejectedAddKeepsLedger ==
  [][(DraftLacksRequired(newBillData) /\ AddAttempt) => bills' = bills]_vars

\* an attempt was rejected for its empty bill date alone
C2_Witness ==
  /\ alerted
  /\ newBillData.billerName = Str("Z")
  /\ newBillData.billDate = Str("")
  /\ newBillData.billAmount = Num(4)

\* C3: an accepted add lengthens the ledger by one; the new entry is the last,
\* carries the draft's fields, and every earlier entry keeps fields and place.
C3_AcceptedAddAppends ==
  [][(~DraftLacksRequired(newBillData) /\ AddAttempt) =>
       /\ Len(bills') = Len(bills) + 1
       /\ "id" \in DOMAIN bills'[Len(bills')]
       /\ Without(bills'[Len(bills')], "id") = newBillData
       /\ \A k \in 1..Len(bills) : bills'[k] = bills[k]]_vars

\* a third entry was added behind the two seeded ones
C3_Witness ==
  /\ Len(bills) = 3
  /\ bills[1].billerName = Str("A")
  /\ bills[2].billerName = Str("B")
  /\ Without(bills[3], "id") =
       [billerName |-> Str("Z"), billNumber |-> Str("Z"), billDate |-> Str("Z"),
        billAmount |-> Num(0 - 1)]
  /\ newBillData = blankDraft

\* C4: no two ledger entries share an id.
C4_IdsUnique ==
  \A j, k \in 1..Len(bills) : j # k => bills[j].id # bills[k].id

\* ids to try against a ledger: those the session can hold and one it cannot
ProbeIds == {BillId(t, x) : t \in Times, x \in {"0", "1", "2", "0.5", "7"}}

\* C5: update(id, draft) leaves the ledger as it is when no entry has that
\* id; otherwise the entry with that id gets the draft's fields, keeps its id
\* and its place, and the other entries and the length stay as they were.
C5_UpdateReplacesInPlace ==
  /\ [](\A id \in ProbeIds :
          LET after == handleUpdateBill(bills, id, editedData) IN
          /\ Len(after) = Len(bills)
          /\ ~HasId(bills, id) => after = bills
          /\ \A k \in 1..Len(bills) :
               IF bills[k].id = id
               THEN after[k].id = id /\ Without(after[k], "id") = editedData
               ELSE after[k] = bills[k])
  /\ [][handleSaveClick =>
          /\ Len(bills') = Len(bills)
          /\ \A k \in 1..Len(bills) :
               IF bills[k].id = editingRowId
               THEN /\ bills'[k].id = bills[k].id
                    /\ Without(bills'[k], "id") = editedData
               ELSE bills'[k] = bills[k]]_vars

\* the second seeded row was saved with every field changed, the first and
\* the third are as extracted
C5_Witness ==
  /\ Len(bills) = 3
  /\ bills[1] = Spread(formattedBills(<<billUnparsable>>)[1], [id |-> BillId(1, "0")])
  /\ bills[2] =
       [id |-> BillId(1, "1"), billerName |-> Str("Z"), billNumber |-> Str("Z"),
        billDate |-> Str("Z"), billAmount |-> Num(4)]
  /\ bills[3] = Spread(billFull, [id |-> BillId(1, "2")])
  /\ editingRowId = Null

\* the row of the open edit is in the ledger before a step and not after it
EditedRowVanishes ==
  /\ Truthy(editingRowId)
  /\ HasId(bills, editingRowId)
  /\ ~HasId(bills', editingRowId)

\* C6: an open edit always refers to a row of the ledger; a step that takes
\* that row out of the ledger closes the edit and writes no draft (what is
\* left in the ledger are entries as they were); Save and Cancel bring
\* no id into the ledger that was not there.
C6_EditClosedWhenRowGoes ==
  /\ [](Truthy(editingRowId) => HasId(bills, editingRowId))
  /\ [][EditedRowVanishes =>
          /\ editingRowId' = Null
          /\ \A k \in 1..Len(bills') : \E j \in 1..Len(bills) : bills'[k] = bills[j]]_vars
  /\ [][(handleSaveClick \/ handleCancelClick) =>
          \A k \in 1..Len(bills') : HasId(bills, bills'[k].id)]_vars

\* an edit with a changed draft is open and a step takes its row away
C6_Witness ==
  /\ Truthy(editingRowId)
  /\ editedData.billAmount = Num(4)
  /\ ENABLED (Next /\ EditedRowVanishes)

\* C7: delete(id) removes the entries with that id and nothing else, the
\* others keep their relative order; with no such entry the ledger stays as
\* it is, so a second delete(id) changes nothing.
C7_DeleteRemovesExactly ==
  \A id \in ProbeIds :
    LET once == handleDeleteBill(bills, id)
        Kept == {k \in 1..Len(bills) : bills[k].id # id}
    IN /\ Len(once) = Cardinality(Kept)
       /\ \A k \in Kept : once[Cardinality({j \in Kept : j <= k})] = bills[k]
       /\ ~HasId(bills, id) => once = bills
       /\ handleDeleteBill(once, id) = once

\* the middle one of three seeded rows was deleted
C7_Witness ==
  /\ Len(bills) = 2
  /\ bills[1].id = BillId(1, "0")
  /\ bills[2].id = BillId(1, "2")
  /\ bills[1].billerName = Str("C")

\* a response that passes the structural check of geminiService.ts:125
IsValidAnswer(r) ==
  /\ ~r.raised
  /\ ~TextIsFalsy(r.text)
  /\ r.text.json
  /\ StructurallyValid(r.text.value)

\* C8: for a structurally valid response the normalized bills are as many as
\* the received ones and the k-th comes from the k-th received: nothing is
\* reordered, dropped or deduplicated.
C8_BillOrderKept ==
  (extracted.status # "none" /\ IsValidAnswer(response)) =>
    LET items == response.text.value.o["bills"].items IN
    /\ extracted.status = "returned"
    /\ Len(extracted.bills) = Len(items)
    /\ \A k \in 1..Len(items) :
         /\ "billAmount" \in DOMAIN extracted.bills[k]
         /\ Without(extracted.bills[k], "billAmount") = Without(items[k], "billAmount")

\* two received entries with identical fields are both kept
C8_Witness ==
  /\ extracted.status = "returned"
  /\ IsValidAnswer(response)
  /\ response.text.value.o["bills"].items = <<billFull, billFull>>
  /\ Len(extracted.bills) = 2
  /\ extracted.bills[1] = extracted.bills[2]
  /\ extracted.bills[2].billerName = Str("A")

\* C9: for a structurally valid response every declared patient and
\* policy-holder field the response omits is "" in the normalized record and
\* every field it supplies keeps the supplied value.
C9_IdentityDefaults ==
  (extracted.status # "none" /\ IsValidAnswer(response)) =>
    LET p == response.text.value.o["patientDetails"].o
        q == response.text.value.o["policyHolderDetails"].o
    IN /\ extracted.status = "returned"
       /\ \A f \in PatientFields :
            /\ f \in DOMAIN extracted.patientDetails
            /\ extracted.patientDetails[f] = IF f \in DOMAIN p THEN p[f] ELSE Str("")
       /\ \A f \in PolicyHolderFields :
            /\ f \in DOMAIN extracted.policyHolderDetails
            /\ extracted.policyHolderDetails[f] = IF f \in DOMAIN q THEN q[f] ELSE Str("")

\* a response with the patient's name alone: the name is kept, the rest is ""
C9_Witness ==
  /\ extracted.status = "returned"
  /\ IsValidAnswer(response)
  /\ response.text.value.o["patientDetails"].o = patientNameOnly
  /\ extracted.patientDetails.name = Str("A")
  /\ extracted.patientDetails.gender = Str("")
  /\ extracted.policyHolderDetails.policyNumber = Str("P1")
  /\ extracted.policyHolderDetails.email = Str("")

\* C10: in every reachable session state every declared field of the patient
\* record and of the policy-holder record is present and a string.
C10_IdentityFieldsAreStrings ==
  /\ \A f \in PatientFields :
       f \in DOMAIN patientDetails /\ IsString(patientDetails[f])
  /\ \A f \in PolicyHolderFields :
       f \in DOMAIN policyHolderDetails /\ IsString(policyHolderDetails[f])

\* the amount of a received bill entry is absent or is text that is no number
AmountUnusable(item) ==
  \/ "billAmount" \notin DOMAIN item
  \/ IsString(item["billAmount"]) /\ item["billAmount"].s \notin NumericStrings

\* C11: every bill entry of a structurally valid response whose billAmount is
\* absent or does not parse as a number is kept, with billAmount 0.
C11_UnusableAmountIsZero ==
  (extracted.status # "none" /\ IsValidAnswer(response)) =>
    LET items == response.text.value.o["bills"].items IN
    /\ extracted.status = "returned"
    /\ Len(extracted.bills) = Len(items)
    /\ \A k \in 1..Len(items) :
         AmountUnusable(items[k]) =>
           /\ extracted.bills[k]["billAmount"] = Num(0)
           /\ Without(extracted.bills[k], "billAmount") = Without(items[k], "billAmount")

\* an entry with the amount "abc" and one with no amount, both kept with 0
C11_Witness ==
  /\ extracted.status = "returned"
  /\ IsValidAnswer(response)
  /\ response.text.value.o["bills"].items = <<billUnparsable, billNoAmount>>
  /\ extracted.bills[1]["billAmount"] = Num(0)
  /\ extracted.bills[1]["billerName"] = Str("C")
  /\ extracted.bills[2]["billAmount"] = Num(0)
  /\ extracted.bills[2]["billerName"] = Str("D")

\* C12: in every reachable state every billAmount of the ledger is a number
\* greater than or equal to 0.
C12_AmountsNonNegative ==
  \A k \in 1..Len(bills) :
    IsNumber(bills[k].billAmount) /\ bills[k].billAmount.n >= 0

\* every identity field of the session is ""
IdentityBlank ==
  /\ patientDetails = [f \in PatientFields |-> Str("")]
  /\ policyHolderDetails = [f \in PolicyHolderFields |-> Str("")]

\* the EmptyExtraction outcome of an attempt
EndsEmpty ==
  /\ ~isLoading
  /\ bills = <<>>
  /\ IdentityBlank
  /\ error = NoBillsMessage
  /\ error # ProcessingFailedMessage

\* the response text is null or empty, or it parses to a document that passes
\* the structural check and has no bills
IsEmptyAnswer(r) ==
  /\ ~r.raised
  /\ \/ r.text.kind \in {"absent", "empty"}
     \/ /\ IsValidAnswer(r)
        /\ r.text.value.o["bills"].items = <<>>

\* C13: a null or empty response, and a response whose bill sequence is
\* empty, end the attempt as EmptyExtraction: ledger empty, every identity
\* field "", the no-bills message shown, which is not the failure message.
C13_EmptyResponseEndsEmpty ==
  IsEmptyAnswer(response) =>
    /\ extracted.status # "none" =>
         extracted.status = "returned" /\ extracted.bills = <<>>
    /\ pc = "idle" => EndsEmpty

\* a fenced response with no bills and a patient name: nothing of it is shown
C13_Witness ==
  /\ response = Answer(Body(TRUE, TRUE, Doc(<<>>, patientNameOnly, policyRequired)))
  /\ pc = "idle"
  /\ extracted.patientDetails["name"] = Str("A")
  /\ bills = <<>>
  /\ patientDetails["name"] = Str("")
  /\ error = NoBillsMessage

\* the response parses to a document that fails the structural check
IsInvalidAnswer(r) ==
  /\ ~r.raised
  /\ r.text.kind = "body"
  /\ r.text.json
  /\ r.text.value \in InvalidDocs

\* C14: for a parsed response without a bills array, without patientDetails
\* or without policyHolderDetails the normalizer returns the all-blank
\* default and raises nothing, and the attempt ends as EmptyExtraction.
C14_InvalidShapeEndsEmpty ==
  IsInvalidAnswer(response) =>
    /\ extracted.status # "none" =>
         /\ extracted.status = "returned"
         /\ extracted.bills = <<>>
         /\ extracted.patientDetails = [f \in PatientFields |-> Str("")]
         /\ extracted.policyHolderDetails = [f \in PolicyHolderFields |-> Str("")]
    /\ pc = "idle" => EndsEmpty

\* a response with bills and a patient but no policyHolderDetails
C14_Witness ==
  /\ IsInvalidAnswer(response)
  /\ "policyHolderDetails" \notin DOMAIN response.text.value.o
  /\ "bills" \in DOMAIN response.text.value.o
  /\ extracted.status = "returned"
  /\ pc = "idle"
  /\ error = NoBillsMessage

\* C15: a non-empty response that is not JSON is recovered: the normalizer
\* gives the all-blank default and the user sees the no-bills message.
C15_UnparsableRecovered ==
  (~response.raised /\ response.text.kind = "body" /\ ~response.text.json) =>
    /\ extracted.status # "none" =>
         extracted.status = "returned" /\ extracted.bills = <<>>
    /\ pc = "idle" => error = NoBillsMessage

\* the ledger is empty and both identity records are all-blank
Cleared == bills = <<>> /\ IdentityBlank

\* a step in which processPdf starts on some document
AttemptStarts == \E f \in Files, n \in 1..MaxPages : StartUpload(f, n)

\* a step in which rasterization or the remote call raises
AttemptRaises ==
  \/ RasterRaises
  \/ \E now \in Times : RemoteSettles(CallRaises, now)

\* C16: an attempt clears the ledger and blanks both identity records before
\* rasterization begins and they stay so while it runs; an attempt in which
\* rasterization or the remote call raises settles as Failed with the ledger
\* empty and the identity blank; after a failed or empty attempt nothing of
\* an earlier document is left.
C16_AttemptStartsCleared ==
  /\ [](isLoading => Cleared)
  /\ [][AttemptStarts => (pc' = "raster" /\ page' = 0 /\ Cleared')]_vars
  /\ [][AttemptRaises =>
          (~isLoading' /\ error' = ProcessingFailedMessage /\ Cleared')]_vars
  /\ []((~isLoading /\ error \in {ProcessingFailedMessage, NoBillsMessage})
          => Cleared)

\* an attempt on a two-page document that failed after its first page
C16_Witness ==
  /\ ~isLoading
  /\ error = ProcessingFailedMessage
  /\ progress = 3750
  /\ uploadedFile = NoFile
  /\ Cleared

\* where the attempt in flight stands
attemptPosition == <<uploadedFile, pc, page, numPages, progress>>

\* C17: an attempt is in flight exactly while the busy flag is set, and while
\* it is set no step of either intake path starts processPdf again (a step
\* that puts the running attempt back to its start, or onto another file).
C17_OneAttemptInFlight ==
  /\ [](isLoading <=> pc # "idle")
  /\ [][isLoading => ~(AttemptStarts /\ attemptPosition' # attemptPosition)]_vars
  /\ [][(isLoading /\ isLoading') =>
          (uploadedFile' = uploadedFile /\ (pc = "remote" => pc' = "remote"))]_vars

\* an attempt waits for the remote call while a drag hovers over the control
C17_Witness ==
  /\ isLoading
  /\ pc = "remote"
  /\ isDragging
  /\ uploadedFile = "b.pdf"

\* C19: progress starts at 0 with the attempt, no step of a running attempt
\* lowers it, it is 80 when the remote call is issued and 100 when the call
\* has returned, and it stays within 0..100 (in hundredths: 0..10000).
C19_ProgressMonotone ==
  /\ [](progress >= 0 /\ progress <= 10000)
  /\ [][AttemptStarts => progress' = 0]_vars
  /\ [][isLoading => progress' >= progress]_vars
  /\ [][RemoteCallIssued => progress' = 8000]_vars
  /\ [][(pc = "remote" /\ pc' = "idle" /\ error' # ProcessingFailedMessage)
          => progress' = 10000]_vars

\* the first of two pages is rendered: 37.5
C19_Witness ==
  /\ pc = "raster"
  /\ page = 1
  /\ numPages = 2
  /\ progress = 3750

\* a step of the check in flight
CheckStep ==
  \/ CheckRasterized
  \/ CheckRasterRaises
  \/ CheckRemoteRaises
  \/ \E t \in CheckTexts(checkFile) : CheckReturns(t)

\* C18: a check is in flight exactly while its busy flag is set and no second
\* one starts meanwhile (the one in flight keeps its file and only moves
\* forward); a step that starts an upload leaves the check as it is, the
\* check in flight can always take its next step, and the step that settles
\* it clears the busy flag.
C18_OneCheckInFlight ==
  /\ [](isCheckingAlerts <=> checkPc # "idle")
  /\ [][(isCheckingAlerts /\ isCheckingAlerts') =>
          (checkFile' = checkFile /\ (checkPc = "remote" => checkPc' = "remote"))]_vars
  /\ [][(~isLoading /\ isLoading') => UNCHANGED alertVars]_vars
  /\ [](isCheckingAlerts => ENABLED CheckStep)
  /\ [][(checkPc # "idle" /\ checkPc' = "idle") => ~isCheckingAlerts']_vars

\* the check of a.pdf is still out and an upload of b.pdf has started
C18_Witness ==
  /\ isCheckingAlerts
  /\ checkPc = "remote"
  /\ checkFile = "a.pdf"
  /\ isLoading
  /\ uploadedFile = "b.pdf"

\* C20: a click on Generate PDF, whatever becomes of the window, leaves
\* the ledger (entries, order, ids) and both identity records as they were.
C20_ReportLeavesState ==
  [][(\E opened \in BOOLEAN, raises \in BOOLEAN : handleGeneratePdf(opened, raises)) =>
       /\ bills' = bills
       /\ patientDetails' = patientDetails
       /\ policyHolderDetails' = policyHolderDetails]_vars

\* a report of a two-entry ledger is open and the ledger still has the two
\* entries in their order
C20_Witness ==
  /\ report.window = "opened"
  /\ Len(report.body) = 2
  /\ Len(bills) = 2
  /\ bills[1].id = BillId(1, "0")
  /\ bills[2].id = BillId(1, "1")
  /\ report.body[1][2] = bills[1].billerName
  /\ report.body[2][2] = bills[2].billerName
  /\ bills[1].billerName # bills[2].billerName

\* a click on Generate PDF that is given a window and compiles the report
ReportCompiled ==
  /\ \E opened \in BOOLEAN, raises \in BOOLEAN : handleGeneratePdf(opened, raises)
  /\ report'.window = "opened"

\* the text of a whole amount below one thousand, with two fraction digits
TwoDecimals(n) ==
  IF n < 0 THEN "-" \o ToString(0 - n) \o ".00" ELSE ToString(n) \o ".00"

\* C21: the report compiled by a click on Generate PDF has one body row per
\* ledger entry, in ledger order: the k-th row is numbered k and carries the
\* k-th entry's biller name, bill number, bill date (undefined where the
\* entry has none) and amount, and the footer amount is the sum of the
\* billAmount of exactly those entries.
C21_ReportListsLedger ==
  [][ReportCompiled =>
       /\ Len(report'.body) = Len(bills)
       /\ \A k \in 1..Len(bills) :
            /\ report'.body[k][1] = Num(k)
            /\ report'.body[k][2] = Get(bills[k], "billerName")
            /\ report'.body[k][3] = Get(bills[k], "billNumber")
            /\ report'.body[k][4] = Get(bills[k], "billDate")
            /\ report'.body[k][5] = TwoDecimals(bills[k].billAmount.n)
       /\ report'.foot = TwoDecimals(SumOfAmounts(bills))]_vars

\* the open report of the ledger <<A 3, B 2>>: rows 1 and 2 and the footer 5.00
C21_Witness ==
  /\ report.window = "opened"
  /\ Len(report.body) = 2
  /\ report.body[1] = <<Num(1), Str("A"), Str("N1"), Str("D1"), "3.00">>
  /\ report.body[2] = <<Num(2), Str("B"), Str("N2"), Str("D2"), "2.00">>
  /\ report.foot = "5.00"

\* amounts on both sides of zero and of the grouping thresholds, and the
\* value that is no number
ProbeAmounts ==
  {Num(0 - 1234567), Num(0 - 1000), Num(0 - 1), Num(0), Num(3), Num(999),
   Num(1000), Num(1234567), NaN}

\* C22: the table's formatAmount and the report's give the same text for
\* every amount, the total the table shows equals the total the report
\* computes for every ledger, and a compiled report prints, for each entry
\* and for the total, the text the table shows.
C22_TableAndReportAgree ==
  /\ [](\A v \in ProbeAmounts : formatAmount(v) = reportFormatAmount(v))
  /\ [](\A k \in 1..Len(bills) :
          formatAmount(bills[k].billAmount) = reportFormatAmount(bills[k].billAmount))
  /\ [](totalAmount(bills) = reportTotalAmount(bills))
  /\ [][ReportCompiled =>
          /\ \A k \in 1..Len(bills) :
               report'.body[k][5] = formatAmount(bills[k].billAmount)
          /\ report'.foot = formatAmount(totalAmount(bills))]_vars

\* the open report of a two-entry ledger whose footer is the total the
\* table shows, 3.00, beside entries the table shows as 3.00 and 0.00
C22_Witness ==
  /\ report.window = "opened"
  /\ Len(bills) = 2
  /\ Len(report.body) = 2
  /\ formatAmount(bills[1].billAmount) = "3.00"
  /\ formatAmount(bills[2].billAmount) = "0.00"
  /\ report.body[2][5] = "0.00"
  /\ report.foot = formatAmount(totalAmount(bills))
  /\ report.foot = "3.00"

\* C23: a click on Alert and every later step of the check it starts, to
\* success or to failure, change nothing but the anomaly state: the ledger,
\* both identity records, the extraction's progress, error, busy flag and
\* file, and the table's edit session are what they were.
C23_CheckLeavesSession ==
  [][(handleAlertCheck \/ CheckStep) =>
       /\ bills' = bills
       /\ patientDetails' = patientDetails
       /\ policyHolderDetails' = policyHolderDetails
       /\ progress' = progress
       /\ error' = error
       /\ isLoading' = isLoading
       /\ uploadedFile' = uploadedFile
       /\ UNCHANGED tableVars]_vars

\* a check of a.pdf has returned its findings beside the seeded ledger and
\* the finished extraction's progress of 100
C23_Witness ==
  /\ ~isCheckingAlerts
  /\ alertResult = Str("findings on a.pdf")
  /\ alertError = Null
  /\ Len(bills) > 0
  /\ progress = 10000
  /\ error = Null

\* C24: a save of one identity field sets that field of its record to the
\* value saved and closes the field's edit; every other field of the record,
\* the other record, the ledger and the drafts of the other fields in edit
\* are what they were.
C24_FieldSavePatchesOneField ==
  [][\A f \in EditedFields : FieldSave(f) =>
       LET old == IF f[1] = "patient" THEN patientDetails ELSE policyHolderDetails
           new == IF f[1] = "patient" THEN patientDetails' ELSE policyHolderDetails'
       IN /\ new[f[2]] = fieldDrafts[f]
          /\ DOMAIN new = DOMAIN old
          /\ \A g \in DOMAIN old \ {f[2]} : new[g] = old[g]
          /\ f[1] = "patient" => policyHolderDetails' = policyHolderDetails
          /\ f[1] # "patient" => patientDetails' = patientDetails
          /\ bills' = bills
          /\ ~FieldInEdit(f)'
          /\ \A g \in DOMAIN fieldDrafts \ {f} :
               FieldInEdit(g)' /\ fieldDrafts'[g] = fieldDrafts[g]]_vars

\* the patient's name, A in the response, was saved as the empty text and
\* the policy holder's name as Z; the patient's gender, null in the
\* response, is in edit with a draft
C24_Witness ==
  /\ patientDetails["name"] = Str("")
  /\ policyHolderDetails["name"] = Str("Z")
  /\ patientDetails["gender"] = Null
  /\ FieldInEdit(<<"patient", "gender">>)
  /\ fieldDrafts[<<"patient", "gender">>] = Str("Z")
  /\ ~FieldInEdit(<<"patient", "name">>)
  /\ Len(bills) = 3

\* C25: when the attempt has ended on an extraction of at least one bill,
\* the ledger is the normalized bill sequence, entry for entry in the same
\* order, the k-th entry's id is the one made of the time of the assignment
\* and of k - 1, whatever id the response carried, and the two identity
\* records are the normalized ones, whole.
C25_PopulatedTakesExtraction ==
  (pc = "idle" /\ extracted.status = "returned" /\ Len(extracted.bills) > 0) =>
    /\ Len(bills) = Len(extracted.bills)
    /\ \E now \in Times :
         \A k \in 1..Len(bills) :
           /\ Without(bills[k], "id") = Without(extracted.bills[k], "id")
           /\ bills[k].id = BillId(now, ToString(k - 1))
    /\ patientDetails = extracted.patientDetails
    /\ policyHolderDetails = extracted.policyHolderDetails
    /\ error = Null
    /\ ~isLoading

\* the response <<D with an id of its own, B with the amount "2">>, a
\* patient whose name is the number 5 and a policy without a number: the
\* ledger has D then B under ids 0 and 1 and the records are the response's
\* over the blank defaults
C25_Witness ==
  /\ pc = "idle"
  /\ response = Answer(Body(FALSE, FALSE,
                   Doc(<<billNoAmount, billStringAmount>>, patientNumberName,
                       policyNullNumber)))
  /\ Len(bills) = 2
  /\ bills[1].billerName = Str("D")
  /\ bills[1].id = BillId(1, "0")
  /\ bills[2].billerName = Str("B")
  /\ bills[2].billAmount = Num(2)
  /\ bills[2].id = BillId(1, "1")
  /\ patientDetails["name"] = Num(5)
  /\ patientDetails["gender"] = Str("")
  /\ policyHolderDetails["policyNumber"] = Null
  /\ policyHolderDetails["email"] = Str("e")

\* a step of the extraction attempt in flight: a page is rendered or
\* skipped, the remote call is issued, rasterization raises, or the remote
\* call settles
AttemptStep ==
  \/ PageRendered
  \/ PageSkipped
  \/ RemoteCallIssued
  \/ RasterRaises
  \/ \E r \in SessionRemotes, now \in Times : RemoteSettles(r, now)

\* The session of uploads and anomaly checks in which every awaited
\* rasterization step and remote call returns or raises: the attempt in
\* flight and the check in flight are not left waiting forever.
SpecLive ==
  /\ InitTable
  /\ [][NextAlert]_vars
  /\ WF_vars(AttemptStep)
  /\ WF_vars(CheckStep)

\* how an attempt that has settled stands
SettledPopulated == Len(bills) > 0 /\ error = Null /\ uploadedFile # NoFile
SettledEmpty == bills = <<>> /\ error = NoBillsMessage /\ uploadedFile = NoFile
SettledFailed ==
  bills = <<>> /\ error = ProcessingFailedMessage /\ uploadedFile = NoFile

\* C26: every extraction attempt that has started settles, and the step
\* that settles it leaves it populated, empty or failed with the busy flag
\* cleared; every anomaly check that has started settles, and the step that
\* settles it leaves the advisory text or the advisory error of the check
\* with its busy flag cleared.
C26_AttemptsAndChecksSettle ==
  /\ isLoading ~> ~isLoading
  /\ isCheckingAlerts ~> ~isCheckingAlerts
  /\ [][(pc # "idle" /\ pc' = "idle") =>
          /\ ~isLoading'
          /\ SettledPopulated' \/ SettledEmpty' \/ SettledFailed']_vars
  /\ [][(checkPc # "idle" /\ checkPc' = "idle") =>
          /\ ~isCheckingAlerts'
          /\ \/ alertError' = CheckFailedMessage
             \/ alertResult' \in CheckTexts(checkFile) /\ alertError' = alertError]_vars

\* an attempt on b.pdf has failed and the check of a.pdf that was in
\* flight beside it has failed too: both busy flags are cleared
C26_Witness ==
  /\ ~isLoading
  /\ pc = "idle"
  /\ SettledFailed
  /\ ~isCheckingAlerts
  /\ checkPc = "idle"
  /\ alertError = CheckFailedMessage

\* an amount that does not parse is typed into the draft of the row in edit
UnparsableEditInput ==
  \E v \in UnparsableAmounts : handleInputChange("billAmount", v)

\* an amount that does not parse is typed into the draft of the new-row slot
UnparsableNewInput ==
  \E v \in UnparsableAmounts : handleNewBillInputChange("billAmount", v)

\* C27 as stated: an amount that does not parse is coerced to 0 and never
\* causes a rejection, in the draft of the row in edit and in the draft of
\* the new-row slot: a new-row draft that has its biller name and bill date
\* passes the add check once such an amount is typed into it.
C27_UnparsableNeverRejects ==
  /\ [][UnparsableEditInput => editedData'.billAmount = Num(0)]_vars
  /\ [][UnparsableNewInput => newBillData'.billAmount = Num(0)]_vars
  /\ [][(/\ UnparsableNewInput
          /\ Truthy(newBillData'.billerName)
          /\ Truthy(newBillData'.billDate)) => AddAccepted(newBillData')]_vars

\* C27, amended: an amount that does not parse is coerced to 0 in either
\* draft, and the input itself is not rejected: the draft takes the 0, its
\* other fields stay, no alert is raised and the ledger is untouched.  A
\* save of a row whose draft holds 0 is accepted and the row takes 0.  An
\* add whose draft holds 0 is rejected: the alert is raised and the ledger
\* stays as it was.
C27_UnparsableCoercedToZero ==
  /\ [][UnparsableEditInput =>
          /\ editedData'.billAmount = Num(0)
          /\ Without(editedData', "billAmount") = Without(editedData, "billAmount")
          /\ ~alerted'
          /\ bills' = bills
          /\ editingRowId' = editingRowId]_vars
  /\ [][UnparsableNewInput =>
          /\ newBillData'.billAmount = Num(0)
          /\ Without(newBillData', "billAmount") = Without(newBillData, "billAmount")
          /\ ~alerted'
          /\ bills' = bills]_vars
  /\ [][(handleSaveClick /\ editedData.billAmount = Num(0)) =>
          /\ ~alerted'
          /\ \A k \in 1..Len(bills) :
               RowInEdit(k) => bills'[k].billAmount = Num(0)]_vars
  /\ [][(AddAttempt /\ newBillData.billAmount = Num(0)) =>
          alerted' /\ bills' = bills]_vars

\* the row A, extracted with the amount 3, was saved with 0, and an add of
\* a draft with its name, its date and the amount 0 has been rejected
C27_Witness ==
  /\ Len(bills) = 2
  /\ bills[1].billerName = Str("A")
  /\ bills[1].billAmount = Num(0)
  /\ editingRowId = Null
  /\ alerted
  /\ newBillData.billerName = Str("Z")
  /\ newBillData.billDate = Str("Z")
  /\ newBillData.billAmount = Num(0)

\* C28: while an n-page document is rasterized the progress reported after
\* page i is rendered is 75 * i / n (in hundredths of a percent:
\* progress * n = 7500 * i), it is 80 when the remote call is issued and 100
\* when the call has returned.
C28_ProgressIsLinear ==
  /\ [][PageRendered => progress' * numPages = 7500 * page']_vars
  /\ [][RemoteCallIssued => progress' = 8000]_vars
  /\ [][(pc = "remote" /\ pc' = "idle" /\ error' # ProcessingFailedMessage)
          => progress' = 10000]_vars

\* an edit-session operation other than Save: an edit is opened on a row
\* (also while another row's edit is open), the draft is changed, or the
\* edit is cancelled
EditSessionStep ==
  \/ \E k \in 1..MaxBills : handleEditClick(k)
  \/ \E i \in AllInputs : handleInputChange(i[1], i[2])
  \/ handleCancelClick

\* the rows the table renders as rows in edit
RowsInEdit == {k \in 1..Len(bills) : RowInEdit(k)}

\* C29: of the edit-session operations only Save changes the ledger: opening
\* an edit, changing the draft, cancelling, and opening an edit on a second
\* row while another is open (which replaces the first row's draft) leave
\* every ledger entry as it was; and at most one row is in edit at any time.
C29_OnlySaveChangesLedger ==
  /\ [][EditSessionStep => bills' = bills]_vars
  /\ [][\A k \in 1..Len(bills) : handleEditClick(k) =>
          editedData' = Without(bills[k], "id")]_vars
  /\ [](Cardinality(RowsInEdit) <= 1)

\* C30: the advisory text on display is that of a check of the document
\* now held as the uploaded file, and the step that puts a check's text or
\* error on display belongs to a check of the document then held: no check
\* started on one document shows its result after an upload has replaced
\* or cleared that document.
C30_AdvisoryIsOfCurrentFile ==
  /\ [](Truthy(alertResult) => alertResult = Str("findings on " \o uploadedFile))
  /\ [][(checkPc # "idle" /\ checkPc' = "idle") => checkFile = uploadedFile']_vars

\* C31: whenever the ledger is non-empty an uploaded file is held, so a
\* click on Alert, which is offered on a non-empty ledger only, starts a
\* check of that file and never sets the no-file message.
C31_LedgerHasItsFile ==
  /\ [](Len(bills) > 0 => uploadedFile # NoFile)
  /\ [](alertError # NoFileMessage)
  /\ [][handleAlertCheck =>
          /\ isCheckingAlerts'
          /\ checkFile' = uploadedFile
          /\ checkFile' # NoFile
          /\ alertError' = Null]_vars

\* of the ledger extracted from b.pdf the extracted rows are deleted and an
\* added row is left; a check is started on it and rasterizes b.pdf
C31_Witness ==
  /\ Len(bills) = 1
  /\ bills[1].billerName = Str("Z")
  /\ uploadedFile = "b.pdf"
  /\ isCheckingAlerts
  /\ checkPc = "raster"
  /\ checkFile = "b.pdf"

\* a step of the ledger's user surface: an add attempt, a save of the row
\* in edit, or a delete
LedgerStep ==
  \/ AddAttempt
  \/ handleSaveClick
  \/ \E k \in 1..MaxBills : DeleteClick(k)

\* the remote call of the attempt in flight returns at least one bill
PopulatedSettles ==
  /\ \E r \in SessionRemotes, now \in Times : RemoteSettles(r, now)
  /\ error' = Null
  /\ uploadedFile' # NoFile

\* C32: the only step that takes the ledger from empty to non-empty is the
\* settling of an extraction that returned bills; add, update and delete
\* are taken only on a non-empty ledger with no extraction in flight, and
\* on the empty ledger, also the one left by deleting every entry, no add
\* attempt is on offer.
C32_OnlyExtractionSeedsLedger ==
  /\ [][(bills = <<>> /\ bills' # <<>>) => PopulatedSettles]_vars
  /\ [][LedgerStep => (Len(bills) > 0 /\ ~isLoading)]_vars
  /\ [](bills = <<>> => ~ENABLED AddAttempt)

\* every entry extracted from a.pdf has been deleted: the file is still
\* held, nothing is in flight, no message is shown, and the ledger is empty
C32_Witness ==
  /\ bills = <<>>
  /\ ~isLoading
  /\ uploadedFile = "a.pdf"
  /\ error = Null
  /\ progress = 10000
  /\ ~ENABLED AddAttempt

\* C33: the advisory text and the advisory error are never both set: at
\* least one of them is null, and while a check is in flight the error is.
C33_TextAndErrorExclusive ==
  /\ alertResult = Null \/ alertError = Null
  /\ ~(Truthy(alertResult) /\ Truthy(alertError))
  /\ isCheckingAlerts => alertError = Null

\* a check of b.pdf has failed beside a non-empty ledger: the error is set
\* and the text is null
C33_Witness ==
  /\ alertError = CheckFailedMessage
  /\ alertResult = Null
  /\ ~isCheckingAlerts
  /\ Len(bills) > 0
  /\ ~isLoading
  /\ uploadedFile = "b.pdf"

====
